---- MODULE Spec2Model ----
(***************************************************************************)
(* Model of servicex_storage.minio_storage_manager.MinioStore: the bucket  *)
(* statistics aggregation (get_bucket_info, get_storage_used) and the      *)
(* quota enforcement (cleanup_storage, delete_bucket) over a minio store.  *)
(*                                                                         *)
(* The store is a function from the names of the existing buckets to the   *)
(* list of their objects; an object is a record of its size and its        *)
(* last-modified time.  Time is counted in half days (DayLen units make a  *)
(* day), so that timedelta.days is a floor division.                       *)
(***************************************************************************)
EXTENDS Integers, Sequences, FiniteSets, TLC

VARIABLES
  store,            \* minio: existing bucket name -> list of objects
  order,            \* minio: the order in which list_buckets lists names
  now,              \* datetime.datetime.now()
  threads,          \* self.__threads
  op,               \* the MinioStore method being executed
  pc,               \* position of the caller inside that method
  callNo,           \* 1 for the first call, 2 for the repeated one
  max_size,         \* argument of cleanup_storage
  max_age,          \* argument of cleanup_storage (NoAge: not passed)
  buckets,          \* result of list_buckets
  task,             \* per listed bucket: state of its pool task
  info,             \* per listed bucket: the BucketInfo its task returned
  finishOrder,      \* history: order in which the tasks of get_storage_used ended
  new_buckets,      \* cleanup_storage local
  old_buckets,      \* cleanup_storage local: <<name, age>> tuples
  bucket_list,      \* cleanup_storage local
  cleaned_buckets,  \* cleanup_storage local
  idx,              \* cleanup_storage local
  current_size,     \* cleanup_storage local
  deletions,        \* history: the delete_bucket calls of this call
  history,          \* history: outcome of the earlier calls
  ret,              \* what the method returned or raised
  store0,           \* history: the store when the method was called
  arg,              \* arguments of the bucket and object methods
  calls,            \* history: the minio client requests of this call
  delete_results,   \* list returned by delete_objects
  resp              \* get_file local

vars == <<store, order, now, threads, op, pc, callNo, max_size, max_age,
          buckets, task, info, finishOrder, new_buckets, old_buckets,
          bucket_list, cleaned_buckets, idx, current_size, deletions,
          history, ret, store0, arg, calls, delete_results,
          resp>>

\* what cleanup_storage and get_storage_used leave alone
opsVars == <<arg, calls, delete_results, resp>>

----------------------------------------------------------------------------
(* Bounds of the model *)

MaxBuckets == 2        \* buckets in the store
MaxStoreObjects == 2   \* objects in the store, all buckets together
MaxObjects == 2        \* objects of the bucket get_bucket_info is checked on
MaxThreads == 2        \* THREADS: the pool has 1 or MaxThreads workers
MaxQuota == 2          \* max_size ranges over 0..MaxQuota
Now == 3               \* the evaluation time

NameSeq == <<"A", "B", "C", "D">>
ObjSizes == {1, 2}
\* an object is a day and a half old, or new
Times == {Now - 3, Now}
\* ... or stamped after now
FutureTimes == Times \cup {Now + 1}
\* max_age of a call that passes max_size alone
NoAge == -1
Ages == {0, 1}

\* time units in a day: timedelta.days is the floor of the difference
DayLen == 2

----------------------------------------------------------------------------
(* Helpers on sequences *)

Range(s) == {s[i] : i \in 1..Len(s)}

SeqsUpTo(S, n) == UNION {[1..k -> S] : k \in 0..n}

Perms(S) == {p \in [1..Cardinality(S) -> S] : Range(p) = S}

NameRank(n) == CHOOSE i \in 1..Len(NameSeq) : NameSeq[i] = n

PosIn(s, x) == CHOOSE i \in 1..Len(s) : s[i] = x

MinOf(S) == CHOOSE x \in S : \A y \in S : x <= y

RECURSIVE SumOver(_, _)
SumOver(S, f) ==
  IF S = {} THEN 0
  ELSE LET x == CHOOSE y \in S : TRUE
       IN f[x] + SumOver(S \ {x}, f)

----------------------------------------------------------------------------
(* BucketInfo and get_bucket_info *)

BucketInfo(n, s, lm) == [name |-> n, size |-> s, last_modified |-> lm]

NoInfo == BucketInfo("", 0, 0)

EarlierMut(a, b) == a > b

\* result.last_modified < last_modified
Earlier(a, b) == a < b

RECURSIVE StatLoop(_, _, _)
StatLoop(objects, size, last_modified) ==
  IF objects = <<>> THEN <<size, last_modified>>
  ELSE LET result == Head(objects)
       IN StatLoop(Tail(objects), size + result.size,
                   IF Earlier(result.last_modified, last_modified)
                   THEN result.last_modified ELSE last_modified)

GetBucketInfo(bucket, objects, t) ==
  LET r == StatLoop(objects, 0, t)
  IN BucketInfo(bucket, r[1], r[2])

----------------------------------------------------------------------------
(* delete_bucket: the outcomes the client calls allow.  ret is "True",     *)
(* "False" or "raise"; calls counts the remove_objects and remove_bucket   *)
(* requests that were issued.                                              *)

Without(st, b) == [x \in (DOMAIN st) \ {b} |-> st[x]]

Keep(objects, F) ==
  LET RECURSIVE K(_)
      K(i) == IF i > Len(objects) THEN <<>>
              ELSE (IF i \in F THEN <<objects[i]>> ELSE <<>>) \o K(i + 1)
  IN K(1)

DeleteOutcomesMut(st, b) ==
  {[store |-> st, ret |-> "True", calls |-> 0]}

DeleteOutcomes(st, b) ==
  IF b \notin DOMAIN st
  THEN {[store |-> st, ret |-> "True", calls |-> 0],
        [store |-> st, ret |-> "raise", calls |-> 0]}
  ELSE \* bucket_exists or list_objects raises
       {[store |-> st, ret |-> "raise", calls |-> 0]}
       \cup
       \* remove_objects reports errors for the objects of F
       {[store |-> [st EXCEPT ![b] = Keep(st[b], F)], ret |-> "False",
         calls |-> 1] :
          F \in (SUBSET (1..Len(st[b]))) \ {{}}}
       \cup
       \* remove_bucket raises after the objects are gone
       {[store |-> [st EXCEPT ![b] = <<>>], ret |-> "raise", calls |-> 2]}
       \cup
       {[store |-> Without(st, b), ret |-> "True", calls |-> 2]}

----------------------------------------------------------------------------
(* Pieces of cleanup_storage and get_storage_used *)

ListBuckets == SelectSeq(order, LAMBDA n : n \in DOMAIN store)

TotalSizeMut(list) ==
  IF list = <<>> THEN 0 ELSE Head(list).size

RECURSIVE TotalSize(_)
TotalSize(list) ==
  IF list = <<>> THEN 0 ELSE Head(list).size + TotalSize(Tail(list))

BucketAge(t, last_modified) == (t - last_modified) \div DayLen

TooOld(bucket_age, age_limit) == bucket_age > age_limit

RECURSIVE InsertByKey(_, _)
InsertByKey(x, s) ==
  IF s = <<>> THEN <<x>>
  ELSE IF Head(s).last_modified <= x.last_modified
       THEN <<Head(s)>> \o InsertByKey(x, Tail(s))
       ELSE <<x>> \o s

RECURSIVE SortAcc(_, _)
SortAcc(list, acc) ==
  IF list = <<>> THEN acc
  ELSE SortAcc(Tail(list), InsertByKey(Head(list), acc))

SortByLastModifiedMut(list) == list

\* list.sort(key=lambda x: x.last_modified): a stable sort
SortByLastModified(list) == SortAcc(list, <<>>)

LoopGuardEarlyStop(size, limit, i, n) == size > limit /\ i < n - 1

LoopGuardOverEvict(size, limit, i, n) == size >= limit /\ i < n

LoopGuardNoBound(size, limit, i, n) == size > limit

\* while current_size > max_size and idx < len(bucket_list)
LoopGuard(size, limit, i, n) == size > limit /\ i < n

Value(n) == [kind |-> "value", size |-> n, exc |-> ""]
Raise(e) == [kind |-> "raise", size |-> 0, exc |-> e]
NoRet == [kind |-> "none", size |-> 0, exc |-> ""]
NoArg == [bucket |-> "", names |-> <<>>, failed |-> {}, path |-> ""]

Running == {i \in 1..Len(task) : task[i] = "running"}
Queued == {i \in 1..Len(task) : task[i] = "queued"}

AllFinishedMut == Queued = {}

\* leaving the with block waits for every task of the pool
AllFinished == \A i \in 1..Len(task) : task[i] \in {"done", "failed"}

SomeFailedMut == FALSE

\* iterating the results of executor.map re-raises a task's exception
SomeFailed == \E i \in 1..Len(task) : task[i] = "failed"

----------------------------------------------------------------------------
(* The states the store and the manager start in *)

Objects == [size : ObjSizes, last_modified : Times]

NamesUpTo(k) == {NameSeq[i] : i \in 1..k}

Contents == SeqsUpTo(Objects, MaxStoreObjects)

\* the stores of k buckets that hold at most MaxStoreObjects objects in all
Stores(k) ==
  {st \in [NamesUpTo(k) -> Contents] :
     SumOver(NamesUpTo(k), [b \in NamesUpTo(k) |-> Len(st[b])])
       <= MaxStoreObjects}

Locals ==
  /\ op = "none"
  /\ pc = "idle"
  /\ callNo = 1
  /\ max_size = 0
  /\ max_age = 0
  /\ buckets = <<>>
  /\ task = <<>>
  /\ info = <<>>
  /\ finishOrder = <<>>
  /\ new_buckets = <<>>
  /\ old_buckets = <<>>
  /\ bucket_list = <<>>
  /\ cleaned_buckets = <<>>
  /\ idx = 0
  /\ current_size = 0
  /\ deletions = <<>>
  /\ history = <<>>
  /\ ret = NoRet
  /\ store0 = store
  /\ arg = NoArg
  /\ calls = <<>>
  /\ delete_results = <<>>
  /\ resp = "unbound"

Init ==
  /\ \E k \in 0..MaxBuckets :
       /\ store \in Stores(k)
       /\ order \in Perms(NamesUpTo(k))
  /\ now = Now
  /\ threads \in {1, MaxThreads}
  /\ Locals

----------------------------------------------------------------------------
(* The worker pool: executor.map(self.get_bucket_info, buckets) *)

\* finishOrder is kept for get_storage_used, whose result is claimed not to
\* depend on it
Finished(i) ==
  IF op = "get_storage_used" THEN Append(finishOrder, i) ELSE finishOrder

Submit ==
  /\ buckets' = ListBuckets
  /\ task' = [i \in 1..Len(ListBuckets) |-> "queued"]
  /\ info' = [i \in 1..Len(ListBuckets) |-> NoInfo]
  /\ finishOrder' = <<>>

\* a free worker takes the next task of the queue
StartTask ==
  /\ pc = "aggregate"
  /\ Queued # {}
  /\ Cardinality(Running) < threads
  /\ LET i == CHOOSE j \in Queued : \A k \in Queued : j <= k
     IN task' = [task EXCEPT ![i] = "running"]
  /\ UNCHANGED <<store, order, now, threads, op, pc, callNo, max_size,
                 max_age, buckets, info, finishOrder, new_buckets,
                 old_buckets, bucket_list, cleaned_buckets, idx,
                 current_size, deletions, history, ret>>
  /\ UNCHANGED <<store0, opsVars>>

\* get_bucket_info returns
FinishTask ==
  /\ pc = "aggregate"
  /\ \E i \in Running :
       /\ task' = [task EXCEPT ![i] = "done"]
       /\ info' = [info EXCEPT ![i] =
                     GetBucketInfo(buckets[i], store[buckets[i]], now)]
       /\ finishOrder' = Finished(i)
  /\ UNCHANGED <<store, order, now, threads, op, pc, callNo, max_size,
                 max_age, buckets, new_buckets, old_buckets, bucket_list,
                 cleaned_buckets, idx, current_size, deletions, history,
                 ret>>
  /\ UNCHANGED <<store0, opsVars>>

\* list_objects or stat_object raises inside get_bucket_info
FailTask ==
  /\ pc = "aggregate"
  /\ \E i \in Running :
       /\ task' = [task EXCEPT ![i] = "failed"]
       /\ finishOrder' = Finished(i)
  /\ UNCHANGED <<store, order, now, threads, op, pc, callNo, max_size,
                 max_age, buckets, info, new_buckets, old_buckets,
                 bucket_list, cleaned_buckets, idx, current_size, deletions,
                 history, ret>>
  /\ UNCHANGED <<store0, opsVars>>

----------------------------------------------------------------------------
(* get_storage_used *)

CallUsed ==
  /\ pc = "idle"
  /\ op' = "get_storage_used"
  /\ Submit
  /\ IF Len(ListBuckets) = 0
     THEN pc' = "done" /\ ret' = Value(0)
     ELSE pc' = "aggregate" /\ ret' = ret
  /\ UNCHANGED <<store, order, now, threads, callNo, max_size, max_age,
                 new_buckets, old_buckets, bucket_list, cleaned_buckets,
                 idx, current_size, deletions, history>>
  /\ UNCHANGED <<store0, opsVars>>

\* total_size = sum(sizes): the first failed task's exception surfaces
ReturnUsed ==
  /\ pc = "aggregate"
  /\ op = "get_storage_used"
  /\ AllFinished
  /\ ret' = IF SomeFailed THEN Raise("Exception") ELSE Value(TotalSize(info))
  /\ pc' = "done"
  /\ UNCHANGED <<store, order, now, threads, op, callNo, max_size, max_age,
                 buckets, task, info, finishOrder, new_buckets, old_buckets,
                 bucket_list, cleaned_buckets, idx, current_size, deletions,
                 history>>
  /\ UNCHANGED <<store0, opsVars>>

NextUsed == CallUsed \/ StartTask \/ FinishTask \/ FailTask \/ ReturnUsed

SpecUsed == Init /\ [][NextUsed]_vars

----------------------------------------------------------------------------
(* cleanup_storage *)

\* def cleanup_storage(self, max_size: int, max_age: int): both arguments
\* are required, so a call that passes max_size alone raises TypeError
\* before the body runs.
CallCleanup ==
  /\ pc = "idle"
  /\ op' = "cleanup_storage"
  /\ \E size_arg \in 0..MaxQuota, age_arg \in Ages \cup {NoAge} :
       /\ max_size' = size_arg
       /\ max_age' = age_arg
       /\ IF age_arg = NoAge
          THEN /\ pc' = "done"
               /\ ret' = Raise("TypeError")
               /\ UNCHANGED <<buckets, task, info, finishOrder>>
          ELSE /\ pc' = "aggregate"
               /\ ret' = ret
               /\ Submit
  /\ UNCHANGED <<store, order, now, threads, callNo, new_buckets,
                 old_buckets, bucket_list, cleaned_buckets, idx,
                 current_size, deletions, history>>
  /\ store0' = store
  /\ UNCHANGED opsVars

NewBuckets(list, t, age_limit) ==
  SelectSeq(list, LAMBDA b :
              ~TooOld(BucketAge(t, b.last_modified), age_limit))

OldBuckets(list, t, age_limit) ==
  LET old == SelectSeq(list, LAMBDA b :
                         TooOld(BucketAge(t, b.last_modified), age_limit))
  IN [i \in 1..Len(old) |->
        <<old[i].name, BucketAge(t, old[i].last_modified)>>]

\* for bucket in bucket_list: the iterator of executor.map re-raises the
\* exception of a failed task; otherwise the buckets are partitioned
Partition ==
  /\ pc = "aggregate"
  /\ op = "cleanup_storage"
  /\ AllFinished
  /\ IF SomeFailed
     THEN /\ pc' = "done"
          /\ ret' = Raise("Exception")
          /\ UNCHANGED <<new_buckets, old_buckets>>
     ELSE /\ pc' = "age_pass"
          /\ ret' = ret
          /\ new_buckets' = NewBuckets(info, now, max_age)
          /\ old_buckets' = OldBuckets(info, now, max_age)
  /\ UNCHANGED <<store, order, now, threads, op, callNo, max_size, max_age,
                 buckets, task, info, finishOrder, bucket_list,
                 cleaned_buckets, idx, current_size, deletions, history>>
  /\ UNCHANGED <<store0, opsVars>>

\* for bucket in old_buckets: executor.submit(..., bucket.name): bucket is
\* the tuple (name, age), which has no attribute name, so the first
\* iteration raises AttributeError before any deletion is submitted.  With
\* no old bucket, futures is empty and the code goes on to the size pass.
AgePass ==
  /\ pc = "age_pass"
  /\ IF old_buckets # <<>>
     THEN /\ pc' = "done"
          /\ ret' = Raise("AttributeError")
          /\ UNCHANGED <<bucket_list, idx, current_size>>
     ELSE /\ pc' = "size_pass"
          /\ ret' = ret
          /\ bucket_list' = SortByLastModified(new_buckets)
          /\ idx' = 0
          /\ current_size' = TotalSize(new_buckets)
  /\ UNCHANGED <<store, order, now, threads, op, callNo, max_size, max_age,
                 buckets, task, info, finishOrder, new_buckets, old_buckets,
                 cleaned_buckets, deletions, history>>
  /\ UNCHANGED <<store0, opsVars>>

\* one iteration of the while loop of the size pass
SizeStep ==
  /\ pc = "size_pass"
  /\ LoopGuard(current_size, max_size, idx, Len(bucket_list))
  /\ LET bucket == bucket_list[idx + 1]
     IN \E out \in DeleteOutcomes(store, bucket.name) :
          /\ store' = out.store
          /\ deletions' = Append(deletions,
                                 [name |-> bucket.name, ret |-> out.ret,
                                  calls |-> out.calls,
                                  before |-> current_size])
          /\ IF out.ret = "raise"
             THEN /\ pc' = "done"
                  /\ ret' = Raise("Exception")
                  /\ UNCHANGED <<cleaned_buckets, current_size, idx>>
             ELSE /\ pc' = pc
                  /\ ret' = ret
                  /\ cleaned_buckets' = Append(cleaned_buckets, bucket.name)
                  /\ current_size' = current_size - bucket.size
                  /\ idx' = idx + 1
  /\ UNCHANGED <<order, now, threads, op, callNo, max_size, max_age,
                 buckets, task, info, finishOrder, new_buckets, old_buckets,
                 bucket_list, history>>
  /\ UNCHANGED <<store0, opsVars>>

\* return current_size, cleaned_buckets
ReturnCleanup ==
  /\ pc = "size_pass"
  /\ ~LoopGuard(current_size, max_size, idx, Len(bucket_list))
  /\ pc' = "done"
  /\ ret' = Value(current_size)
  /\ UNCHANGED <<store, order, now, threads, op, callNo, max_size, max_age,
                 buckets, task, info, finishOrder, new_buckets, old_buckets,
                 bucket_list, cleaned_buckets, idx, current_size, deletions,
                 history>>
  /\ UNCHANGED <<store0, opsVars>>

\* once cleanup_storage has returned, it is called again with the same
\* thresholds, at the same evaluation time, on the store the first call left
CallAgain ==
  /\ pc = "done"
  /\ op = "cleanup_storage"
  /\ callNo = 1
  /\ ret.kind = "value"
  /\ callNo' = 2
  /\ history' = Append(history, [ret |-> ret, deletions |-> deletions])
  /\ pc' = "aggregate"
  /\ ret' = NoRet
  /\ Submit
  /\ new_buckets' = <<>>
  /\ old_buckets' = <<>>
  /\ bucket_list' = <<>>
  /\ cleaned_buckets' = <<>>
  /\ idx' = 0
  /\ current_size' = 0
  /\ deletions' = <<>>
  /\ store0' = store
  /\ UNCHANGED <<store, order, now, threads, op, max_size, max_age>>
  /\ UNCHANGED opsVars

Next ==
  \/ CallCleanup
  \/ StartTask
  \/ FinishTask
  \/ FailTask
  \/ Partition
  \/ AgePass
  \/ SizeStep
  \/ ReturnCleanup
  \/ CallAgain

Spec == Init /\ [][Next]_vars

----------------------------------------------------------------------------
(* get_bucket_info on its own, on object lists whose timestamps may lie    *)
(* after now (a store whose clock runs ahead of the caller's)              *)

InfoObjects == [size : ObjSizes, last_modified : FutureTimes]

InitInfo ==
  /\ store \in [{"A"} -> SeqsUpTo(InfoObjects, MaxObjects)]
  /\ order = <<"A">>
  /\ now \in Times
  /\ threads = 1
  /\ Locals

CallInfo ==
  /\ pc = "idle"
  /\ op' = "get_bucket_info"
  /\ buckets' = <<"A">>
  /\ pc' = "done"
  /\ \E failed \in BOOLEAN :
       IF failed
       THEN /\ ret' = Raise("Exception")
            /\ info' = <<NoInfo>>
            /\ task' = <<"failed">>
       ELSE /\ info' = <<GetBucketInfo("A", store["A"], now)>>
            /\ ret' = Value(info'[1].size)
            /\ task' = <<"done">>
  /\ UNCHANGED <<store, order, now, threads, callNo, max_size, max_age,
                 finishOrder, new_buckets, old_buckets, bucket_list,
                 cleaned_buckets, idx, current_size, deletions, history>>
  /\ UNCHANGED <<store0, opsVars>>

NextInfo == CallInfo

SpecInfo == InitInfo /\ [][NextInfo]_vars

----------------------------------------------------------------------------
(* The bucket and object methods: delete_bucket step by step,              *)
(* delete_objects, get_file and upload_file.  An object is named by its    *)
(* position in the bucket when the method is called.                       *)

Bool(b) == [kind |-> IF b THEN "True" ELSE "False", size |-> 0, exc |-> ""]

ObjectsOf(st, b) == IF b \in DOMAIN st THEN st[b] ELSE <<>>

PutObjects(st, b, objects) ==
  IF b \in DOMAIN st THEN [st EXCEPT ![b] = objects] ELSE st

BucketExistsMut(st, b) == TRUE

\* self.__minio_client.bucket_exists(bucket)
BucketExists(st, b) == b \in DOMAIN st

HasErrorsMut(errors) == FALSE

\* len(errors) != 0
HasErrors(errors) == Len(errors) # 0

\* the per-object errors remove_objects reports when the objects of F fail
DeleteErrors(names, F) ==
  LET failed == SelectSeq(names, LAMBDA n : n \in F)
  IN [i \in 1..Len(failed) |-> [name |-> failed[i], message |-> "AccessDenied"]]

\* the objects remove_objects leaves: those not asked for and those of F
AfterRemove(objects, names, F) ==
  Keep(objects, (1..Len(objects)) \ (Range(names) \ F))

AllNames(objects) == [i \in 1..Len(objects) |-> i]

DeleteObjectsReturnMut(results) ==
  IF results = <<>> THEN <<>>
  ELSE << <<results[1].name, results[1].message>> >>

\* return [(x.name, x.message) for x in delete_results]
DeleteObjectsReturn(results) ==
  [i \in 1..Len(results) |-> <<results[i].name, results[i].message>>]

IsFileMut(path) == path # "missing"

\* os.path.isfile(path)
IsFile(path) == path = "file"

OpBuckets == {"A", "B"}

InitOps ==
  /\ \E k \in 0..1 :
       /\ store \in [NamesUpTo(k) -> SeqsUpTo(Objects, MaxObjects)]
       /\ order \in Perms(NamesUpTo(k))
  /\ now = Now
  /\ threads = 1
  /\ Locals

cleanupVars == <<order, now, threads, max_size, max_age, buckets, task, info,
                 finishOrder, new_buckets, old_buckets, bucket_list,
                 cleaned_buckets, idx, current_size, deletions>>

CallDeleteBucket ==
  /\ pc = "idle"
  /\ op' = "delete_bucket"
  /\ \E b \in OpBuckets : arg' = [arg EXCEPT !.bucket = b]
  /\ pc' = "bucket_exists"
  /\ store0' = store
  /\ UNCHANGED <<store, callNo, history, ret, calls, delete_results, resp,
                 cleanupVars>>

\* if not self.__minio_client.bucket_exists(bucket): return True
DbExists ==
  /\ pc = "bucket_exists"
  /\ calls' = Append(calls, "bucket_exists")
  /\ \E raised \in BOOLEAN :
       IF raised
       THEN pc' = "done" /\ ret' = Raise("S3Error")
       ELSE IF ~BucketExists(store, arg.bucket)
            THEN pc' = "done" /\ ret' = Bool(TRUE)
            ELSE pc' = "remove_objects" /\ ret' = ret
  /\ UNCHANGED <<store, op, callNo, history, store0, arg, delete_results,
                 resp, cleanupVars>>

\* objects = list_objects(bucket); errors = remove_objects(bucket, objects)
\* if len(errors) != 0: return False
DbRemoveObjects ==
  /\ pc = "remove_objects"
  /\ \E raised \in BOOLEAN :
       IF raised
       THEN /\ pc' = "done"
            /\ ret' = Raise("S3Error")
            /\ calls' = Append(calls, "list_objects")
            /\ UNCHANGED <<store, delete_results>>
       ELSE LET objects == ObjectsOf(store, arg.bucket)
            IN \E F \in SUBSET (1..Len(objects)) :
                 /\ calls' = calls \o <<"list_objects", "remove_objects">>
                 /\ store' = PutObjects(store, arg.bucket,
                               AfterRemove(objects, AllNames(objects), F))
                 /\ delete_results' = DeleteErrors(AllNames(objects), F)
                 /\ IF HasErrors(delete_results')
                    THEN pc' = "done" /\ ret' = Bool(FALSE)
                    ELSE pc' = "remove_bucket" /\ ret' = ret
  /\ UNCHANGED <<op, callNo, history, store0, arg, resp, cleanupVars>>

\* self.__minio_client.remove_bucket(bucket); return True.  The store
\* refuses to remove a bucket that is not empty.
DbRemoveBucket ==
  /\ pc = "remove_bucket"
  /\ calls' = Append(calls, "remove_bucket")
  /\ pc' = "done"
  /\ \E raised \in BOOLEAN :
       IF raised \/ ObjectsOf(store, arg.bucket) # <<>>
                 \/ arg.bucket \notin DOMAIN store
       THEN ret' = Raise("S3Error") /\ store' = store
       ELSE ret' = Bool(TRUE) /\ store' = Without(store, arg.bucket)
  /\ UNCHANGED <<op, callNo, history, store0, arg, delete_results, resp,
                 cleanupVars>>

\* the process dies between remove_objects and remove_bucket
DbCrash ==
  /\ pc = "remove_bucket"
  /\ pc' = "crashed"
  /\ UNCHANGED <<store, op, callNo, history, ret, store0, arg, calls,
                 delete_results, resp, cleanupVars>>

\* delete_bucket is called again on the same bucket
DbAgain ==
  /\ pc \in {"done", "crashed"}
  /\ op = "delete_bucket"
  /\ callNo = 1
  /\ callNo' = 2
  /\ history' = Append(history, [ret |-> ret, pc |-> pc, calls |-> calls])
  /\ pc' = "bucket_exists"
  /\ ret' = NoRet
  /\ calls' = <<>>
  /\ delete_results' = <<>>
  /\ store0' = store
  /\ UNCHANGED <<store, op, arg, resp, cleanupVars>>

\* delete_objects: one remove_objects request for the named objects
CallDeleteObjects ==
  /\ pc = "idle"
  /\ op' = "delete_objects"
  /\ pc' = "done"
  /\ store0' = store
  /\ calls' = <<"remove_objects">>
  /\ \E b \in DOMAIN store :
       \E S \in SUBSET (1..Len(store[b])) : \E names \in Perms(S) :
         \E F \in SUBSET S, raised \in BOOLEAN :
           /\ arg' = [bucket |-> b, names |-> names, failed |-> F,
                      path |-> ""]
           /\ IF raised
              THEN /\ ret' = Raise("S3Error")
                   /\ UNCHANGED <<store, delete_results>>
              ELSE /\ delete_results' = DeleteErrors(names, F)
                   /\ store' = [store EXCEPT ![b] =
                                  AfterRemove(store[b], names, F)]
                   /\ ret' = Value(Len(DeleteObjectsReturn(delete_results')))
  /\ UNCHANGED <<callNo, history, resp, cleanupVars>>

\* get_file: try: resp = fget_object(...)
GetFileTry ==
  /\ pc = "idle"
  /\ op' = "get_file"
  /\ pc' = "finally"
  /\ store0' = store
  /\ calls' = <<"fget_object">>
  /\ \E b \in OpBuckets, raised \in BOOLEAN :
       /\ arg' = [NoArg EXCEPT !.bucket = b, !.names = <<1>>,
                            !.path = "file"]
       /\ IF raised \/ b \notin DOMAIN store \/ ObjectsOf(store, b) = <<>>
          \* except Exception: the exception is logged and swallowed
          THEN resp' = "unbound" /\ ret' = Raise("S3Error")
          ELSE resp' = "open" /\ ret' = ret
  /\ UNCHANGED <<store, callNo, history, delete_results, cleanupVars>>

\* finally: resp.close(); resp.release_conn().  After a failed fget_object
\* resp was never bound and resp.close() raises UnboundLocalError.
GetFileFinally ==
  /\ pc = "finally"
  /\ pc' = "done"
  /\ IF resp = "unbound"
     THEN /\ ret' = Raise("UnboundLocalError")
          /\ UNCHANGED <<resp, calls>>
     ELSE /\ resp' = "released"
          /\ calls' = calls \o <<"close", "release_conn">>
          /\ ret' = Value(0)
  /\ UNCHANGED <<store, op, callNo, history, store0, arg, delete_results,
                 cleanupVars>>

\* upload_file
CallUploadFile ==
  /\ pc = "idle"
  /\ op' = "upload_file"
  /\ pc' = "done"
  /\ store0' = store
  /\ \E b \in OpBuckets, path \in {"file", "dir", "missing"},
        size \in ObjSizes, raised \in BOOLEAN :
       /\ arg' = [NoArg EXCEPT !.bucket = b, !.path = path]
       /\ IF ~IsFile(path)
          THEN /\ ret' = Raise("IOError")
               /\ UNCHANGED <<store, calls>>
          ELSE /\ calls' = <<"fput_object">>
               /\ IF raised \/ b \notin DOMAIN store
                  THEN ret' = Raise("S3Error") /\ store' = store
                  ELSE /\ ret' = Value(0)
                       /\ store' = [store EXCEPT ![b] =
                            Append(@, [size |-> size, last_modified |-> now])]
  /\ UNCHANGED <<callNo, history, delete_results, resp, cleanupVars>>

NextOps ==
  \/ CallDeleteBucket
  \/ DbExists
  \/ DbRemoveObjects
  \/ DbRemoveBucket
  \/ DbCrash
  \/ DbAgain
  \/ CallDeleteObjects
  \/ GetFileTry
  \/ GetFileFinally
  \/ CallUploadFile

SpecOps == InitOps /\ [][NextOps]_vars

----------------------------------------------------------------------------
(* The size pass alone: cleanup_storage at line 200, after an aggregation  *)
(* in which no task failed and no bucket was too old, for quotas that may  *)
(* be negative.                                                            *)

AllInfo == [i \in 1..Len(ListBuckets) |->
              GetBucketInfo(ListBuckets[i], store[ListBuckets[i]], now)]

InitLoop ==
  /\ \E k \in 0..MaxBuckets :
       /\ store \in Stores(k)
       /\ order \in Perms(NamesUpTo(k))
  /\ now = Now
  /\ threads = 1
  /\ op = "cleanup_storage"
  /\ pc = "size_pass"
  /\ callNo = 1
  /\ max_size \in (-1)..MaxQuota
  /\ max_age \in Ages
  /\ buckets = ListBuckets
  /\ task = [i \in 1..Len(ListBuckets) |-> "done"]
  /\ info = AllInfo
  /\ finishOrder = <<>>
  /\ OldBuckets(AllInfo, now, max_age) = <<>>
  /\ old_buckets = <<>>
  /\ new_buckets = NewBuckets(AllInfo, now, max_age)
  /\ bucket_list = SortByLastModified(new_buckets)
  /\ idx = 0
  /\ current_size = TotalSize(new_buckets)
  /\ cleaned_buckets = <<>>
  /\ deletions = <<>>
  /\ history = <<>>
  /\ ret = NoRet
  /\ store0 = store
  /\ arg = NoArg
  /\ calls = <<>>
  /\ delete_results = <<>>
  /\ resp = "unbound"

NextLoop ==
  \/ SizeStep
  \/ ReturnCleanup

\* the loop is sequential code of the calling thread, which keeps running
SpecLoop == InitLoop /\ [][NextLoop]_vars /\ WF_vars(NextLoop)

----------------------------------------------------------------------------
(* Properties *)

Returned == pc = "done" /\ op = "cleanup_storage" /\ ret.kind = "value"

\* the size pass candidates: the listed buckets not classified as too old
CandidateIdx ==
  {i \in 1..Len(info) : (now - info[i].last_modified) \div DayLen <= max_age}

Submitted(k) == {deletions[j].name : j \in 1..k}

\* what is left of the candidates' total once the first j candidates of
\* bucket_list are gone
Remaining(j) ==
  SumOver((j + 1)..Len(bucket_list),
          [i \in 1..Len(bucket_list) |-> bucket_list[i].size])

\* C1: whenever cleanup_storage returns, the returned final size is at most
\* max_size, or every bucket not classified as too old was submitted for
\* deletion.
C1_QuotaMetOrExhausted ==
  Returned =>
    \/ ret.size <= max_size
    \/ \A i \in CandidateIdx : info[i].name \in Submitted(Len(deletions))

C1_Witness ==
  /\ Returned
  /\ Len(info) = 2
  /\ Len(deletions) = 2
  /\ deletions[2].before > max_size

\* C2: the size pass never over-evicts: each deletion happens while the
\* running total of the not yet deleted candidates exceeds max_size, and the
\* deleted buckets are the shortest oldest-first prefix of the candidates
\* whose removal brings the total down to max_size (none when the total is
\* within max_size already).
C2_NoOverEviction ==
  Returned =>
    LET k == Len(deletions)
        n == Len(bucket_list)
    IN /\ k <= n
       /\ {bucket_list[i].name : i \in 1..n}
            = {info[i].name : i \in CandidateIdx}
       /\ \A i \in 1..n : \A j \in i..n :
            bucket_list[i].last_modified <= bucket_list[j].last_modified
       /\ \A j \in 1..k :
            /\ deletions[j].name = bucket_list[j].name
            /\ deletions[j].before = Remaining(j - 1)
            /\ Remaining(j - 1) > max_size
       /\ Remaining(k) <= max_size
       /\ ret.size = Remaining(k)

C2_Witness ==
  /\ Returned
  /\ Len(bucket_list) = 2
  /\ Len(deletions) = 1
  /\ ret.size = max_size
  /\ max_size > 0

InfoOf(n) == info[PosIn(buckets, n)]

\* the candidates that are still there when the i-th deletion is made
LeftAt(i) ==
  {info[c].name : c \in CandidateIdx} \ Submitted(i)

\* C3 as stated: deletions go in ascending last_modified, and candidates of
\* equal last_modified go in ascending bucket name, whatever the listing
\* order.
C3_TiesByName ==
  Returned =>
    \A i \in 1..Len(deletions) : \A c \in LeftAt(i) :
      LET d == deletions[i].name
      IN \/ InfoOf(d).last_modified < InfoOf(c).last_modified
         \/ /\ InfoOf(d).last_modified = InfoOf(c).last_modified
            /\ NameRank(d) < NameRank(c)

\* C3 amended: deletions go in ascending last_modified, and candidates of
\* equal last_modified go in the order in which list_buckets listed them.
C3_TiesByListing ==
  Returned =>
    \A i \in 1..Len(deletions) : \A c \in LeftAt(i) :
      LET d == deletions[i].name
      IN \/ InfoOf(d).last_modified < InfoOf(c).last_modified
         \/ /\ InfoOf(d).last_modified = InfoOf(c).last_modified
            /\ PosIn(buckets, d) < PosIn(buckets, c)

C3_Witness ==
  /\ Returned
  /\ Len(deletions) = 1
  /\ \E c \in LeftAt(1) :
       /\ InfoOf(c).last_modified = InfoOf(deletions[1].name).last_modified
       /\ NameRank(c) < NameRank(deletions[1].name)
       /\ PosIn(buckets, deletions[1].name) < PosIn(buckets, c)

\* C4: once cleanup_storage(max_size, max_age) has ended on a store whose
\* aggregation succeeded, it has returned a result and every bucket whose
\* age in whole days exceeds max_age is in the returned deleted list.
C4_AgePassDeletesOld ==
  (pc = "done" /\ op = "cleanup_storage" /\ max_age # NoAge /\ ~SomeFailed
     /\ \A j \in 1..Len(deletions) : deletions[j].ret = "True")
    => /\ ret.kind = "value"
       /\ \A i \in 1..Len(info) :
            (now - info[i].last_modified) \div DayLen > max_age
              => info[i].name \in Range(cleaned_buckets)

\* C5: get_storage_used returns the sum, over the buckets of the store, of
\* the size get_bucket_info computes for the bucket, for every pool size and
\* every order in which the workers end their tasks.
C5_UsedIsSumOfInfos ==
  (pc = "done" /\ op = "get_storage_used" /\ ret.kind = "value")
    => ret.size = SumOver(DOMAIN store,
                          [b \in DOMAIN store |->
                             GetBucketInfo(b, store[b], now).size])

C5_Witness ==
  /\ pc = "done"
  /\ op = "get_storage_used"
  /\ ret.kind = "value"
  /\ threads = 2
  /\ finishOrder = <<2, 1>>
  /\ info[1].size # info[2].size
  /\ info[1].size > 0

AllDeleted(ds) == \A j \in 1..Len(ds) : ds[j].ret = "True"

ObjTimes(objects) == {objects[i].last_modified : i \in 1..Len(objects)}

ObjTotal(objects) ==
  SumOver(1..Len(objects), [i \in 1..Len(objects) |-> objects[i].size])

InfoDone == pc = "done" /\ op = "get_bucket_info" /\ ret.kind = "value"

\* C7 as stated: get_bucket_info returns the sum of the object sizes and the
\* minimum last-modified time of the objects, whatever the timestamps; for
\* a bucket without objects, size 0 and now.
C7_MinOverObjects ==
  InfoDone =>
    /\ info[1].name = "A"
    /\ info[1].size = ObjTotal(store["A"])
    /\ info[1].last_modified =
         IF store["A"] = <<>> THEN now ELSE MinOf(ObjTimes(store["A"]))

\* C7 amended: get_bucket_info returns the sum of the object sizes and the
\* minimum of now and the last-modified times of the objects (so now for a
\* bucket without objects or whose objects are all stamped after now).
C7_MinOverObjectsAndNow ==
  InfoDone =>
    /\ info[1].name = "A"
    /\ info[1].size = ObjTotal(store["A"])
    /\ info[1].last_modified = MinOf(ObjTimes(store["A"]) \cup {now})

C7_Witness ==
  /\ InfoDone
  /\ Len(store["A"]) = 2
  /\ store["A"][2].last_modified < store["A"][1].last_modified
  /\ store["A"][1].last_modified <= now
  /\ info[1].last_modified = store["A"][2].last_modified
  /\ info[1].size = 3

\* C8: a cleanup_storage call that passes max_size alone runs the size pass
\* and returns the final size.
C8_MaxAgeOptional ==
  (pc = "done" /\ op = "cleanup_storage" /\ max_age = NoAge)
    => ret.kind = "value"

\* C9: a delete_bucket call that fails (returns False or raises) does not
\* abort the pass: cleanup_storage still returns a result.
C9_DeleteFailureDoesNotAbort ==
  (pc = "done" /\ op = "cleanup_storage"
     /\ \E j \in 1..Len(deletions) : deletions[j].ret # "True")
    => ret.kind = "value"

\* C10: a list or stat failure for one bucket is not a failure of the whole
\* call: the call still returns the results of the other buckets.
C10_AggregationFailureIsPartial ==
  (pc = "done" /\ SomeFailed) => ret.kind = "value"

InCalls(c) == \E i \in DOMAIN calls : calls[i] = c

\* C11: get_file ends with its transfer handle closed and released on every
\* exit path, and a failed download is surfaced as the download's error.
C11_HandleReleasedOnEveryPath ==
  (op = "get_file" /\ pc = "done")
    => /\ resp = "released"
       /\ ret.kind = "raise" => ret.exc = "S3Error"

\* C12: delete_objects returns exactly one (name, non-empty message) entry
\* for each object that failed and none for the others; the other named
\* objects are removed and the objects not named stay.
C12_PerObjectOutcomes ==
  (op = "delete_objects" /\ pc = "done" /\ ret.kind = "value")
    => LET before   == store0[arg.bucket]
           returned == DeleteObjectsReturn(delete_results)
           failed   == {returned[i][1] : i \in DOMAIN returned}
           removed  == Range(arg.names) \ failed
       IN /\ ret.size = Len(returned)
          /\ failed \subseteq Range(arg.names)
          /\ \A i, j \in DOMAIN returned :
               returned[i][1] = returned[j][1] => i = j
          /\ \A i \in DOMAIN returned : returned[i][2] # ""
          /\ failed = arg.failed
          /\ Len(returned) = Len(delete_results)
          /\ store[arg.bucket] = Keep(before, (1..Len(before)) \ removed)
          /\ \A b \in DOMAIN store0 \ {arg.bucket} : store[b] = store0[b]
          /\ DOMAIN store = DOMAIN store0

C12_Witness ==
  /\ op = "delete_objects" /\ pc = "done" /\ ret = Value(1)
  /\ Len(arg.names) = 2
  /\ Len(store0[arg.bucket]) = 2
  /\ Len(store[arg.bucket]) = 1
  /\ DeleteObjectsReturn(delete_results) = << <<2, "AccessDenied">> >>

\* C13: delete_bucket on a bucket that does not exist issues no
\* remove-objects and no remove-bucket call, leaves the store as it was and
\* returns success when the existence check answers; after a delete_bucket
\* that removed the bucket, a second one returns success and changes nothing.
C13_DeleteBucketIdempotent ==
  op = "delete_bucket"
    => /\ arg.bucket \notin DOMAIN store0
            => /\ ~InCalls("remove_objects")
               /\ ~InCalls("remove_bucket")
               /\ store = store0
               /\ pc = "done" /\ ret.kind # "raise" => ret = Bool(TRUE)
       /\ (callNo = 2 /\ history[1].ret = Bool(TRUE))
            => /\ arg.bucket \notin DOMAIN store0
               /\ store = store0
               /\ pc = "done" /\ ret.kind # "raise" => ret = Bool(TRUE)

C13_Witness ==
  /\ op = "delete_bucket" /\ callNo = 2 /\ pc = "done"
  /\ history[1].ret = Bool(TRUE)
  /\ \E i \in DOMAIN history[1].calls : history[1].calls[i] = "remove_bucket"
  /\ ret = Bool(TRUE)
  /\ calls = <<"bucket_exists">>
  /\ store = store0

\* C14: upload_file with a path that is not a regular file raises the
\* source-file-missing error, makes no call to the store and leaves it as it
\* was; put-object is issued only for a regular file.
C14_UploadNeedsRegularFile ==
  (op = "upload_file" /\ pc = "done")
    => /\ arg.path # "file"
            => ret = Raise("IOError") /\ calls = <<>> /\ store = store0
       /\ InCalls("fput_object") => arg.path = "file"
       /\ arg.path = "file" => calls = <<"fput_object">>

C14_Witness ==
  /\ op = "upload_file" /\ pc = "done"
  /\ arg.path = "dir"
  /\ ret = Raise("IOError")
  /\ calls = <<>>
  /\ store0 # << >>

FirstCall(c) == CHOOSE i \in DOMAIN calls : calls[i] = c

\* C16: delete_bucket issues remove-bucket only after a remove-objects that
\* reported no per-object error; when an object fails, remove-bucket is never
\* issued, the bucket still exists and the call reports failure; a crash
\* between the two steps leaves an existing empty bucket, which a later
\* delete_bucket removes, returning success.
C16_TwoOrderedSteps ==
  op = "delete_bucket"
    => /\ InCalls("remove_bucket")
            => /\ InCalls("remove_objects")
               /\ FirstCall("remove_objects") < FirstCall("remove_bucket")
               /\ delete_results = <<>>
       /\ delete_results # <<>>
            => /\ ~InCalls("remove_bucket")
               /\ arg.bucket \in DOMAIN store
               /\ pc = "done" /\ ret = Bool(FALSE)
       /\ ret = Bool(FALSE) => delete_results # <<>>
       /\ pc = "crashed"
            => arg.bucket \in DOMAIN store /\ store[arg.bucket] = <<>>
       /\ (callNo = 2 /\ history[1].pc = "crashed" /\ pc = "done"
             /\ ret.kind # "raise")
            => ret = Bool(TRUE) /\ arg.bucket \notin DOMAIN store

C16_Witness ==
  /\ op = "delete_bucket" /\ callNo = 2 /\ pc = "done"
  /\ history[1].pc = "crashed"
  /\ Len(history[1].calls) = 3
  /\ ret = Bool(TRUE)
  /\ calls = <<"bucket_exists", "list_objects", "remove_objects",
               "remove_bucket">>
  /\ arg.bucket \notin DOMAIN store

C16_WitnessObjectFailure ==
  /\ op = "delete_bucket" /\ pc = "done" /\ ret = Bool(FALSE)
  /\ Len(store0[arg.bucket]) = 2
  /\ Len(store[arg.bucket]) = 1

AllTasksDone == \A i \in DOMAIN task : task[i] = "done"

C17_Inv ==
  /\ idx \in 0..Len(bucket_list)
  /\ (pc = "size_pass"
        /\ LoopGuard(current_size, max_size, idx, Len(bucket_list)))
       => idx + 1 \in DOMAIN bucket_list
  /\ Len(deletions) <= Len(bucket_list)
  /\ \A j \in DOMAIN deletions : deletions[j].name = bucket_list[j].name
  /\ \A i, j \in DOMAIN deletions :
       deletions[i].name = deletions[j].name => i = j
  /\ (pc = "done" /\ ret.kind = "value" /\ ret.size > max_size)
       => /\ idx = Len(bucket_list)
          /\ Len(deletions) = Len(bucket_list)
          /\ ret = Value(current_size)

\* C17: the size-pass loop never reads a candidate past the last one, makes
\* at most one deletion per candidate, returns the running total as a value
\* when the candidates are exhausted over quota, and always terminates.
C17_LoopTerminates == []C17_Inv /\ <>[](pc = "done")

C17_Witness ==
  /\ Returned
  /\ Len(bucket_list) = 2
  /\ idx = 2
  /\ Len(deletions) = 2
  /\ \A j \in DOMAIN deletions : deletions[j].ret = "True"
  /\ current_size > max_size
  /\ ret = Value(current_size)
  /\ store = << >>

\* C18: every name in the deleted list cleanup_storage returns is the name of
\* a bucket that no longer exists, also when delete_bucket reported failure.
C18_DeletedListIsTrue ==
  Returned =>
    \A i \in DOMAIN cleaned_buckets : cleaned_buckets[i] \notin DOMAIN store

\* C19: the final size cleanup_storage returns is the sum of the sizes of
\* the buckets that exist when it returns, also when a deletion failed.
C19_FinalSizeIsRealUsage ==
  Returned =>
    ret.size = SumOver(DOMAIN store,
                       [b \in DOMAIN store |-> ObjTotal(store[b])])

\* C20: when get_bucket_info fails for a bucket during the aggregation,
\* cleanup_storage ends with an error, never reaches the age pass or the
\* size pass, issues no remove call and leaves the store as it was.
C20_NoDeleteOnIncompletePicture ==
  (op = "cleanup_storage" /\ \E i \in DOMAIN task : task[i] = "failed")
    => /\ pc \in {"aggregate", "done"}
       /\ pc = "done" => ret.kind = "raise"
       /\ deletions = <<>>
       /\ cleaned_buckets = <<>>
       /\ store = store0

C20_Witness ==
  /\ op = "cleanup_storage" /\ pc = "done"
  /\ ret = Raise("Exception")
  /\ \E i, j \in DOMAIN task : task[i] = "failed" /\ task[j] = "done"
  /\ SumOver(DOMAIN store, [b \in DOMAIN store |-> ObjTotal(store[b])])
       > max_size
  /\ store = store0

====
